---- MODULE Spec2Model ----
(***************************************************************************)
(* Walk-forward backtesting of EPF-Framework: the window splitters and    *)
(* split_series of app/modeling/splitter.py, and the evaluation driver,    *)
(* its forecast table and its error table of app/modeling/backtesting.py.  *)
(*                                                                         *)
(* A series y of length n is indexed 0..n-1 (iloc positions).  A window is *)
(* a record [train, test] of two sets of positions.  Fractions and random  *)
(* draws are counted in units of 1/Res: a draw d stands for d/Res and lies *)
(* in [0, 1), so d \in 0..Res-1; frac f stands for f/Res, so 0.0 is 0 and  *)
(* 1.0 is Res.                                                             *)
(***************************************************************************)
EXTENDS Integers, Sequences, FiniteSets, TLC

\* ------------------------------------------------------------------ bounds
MaxN == 9        \* longest series given to a plain (expanding, sliding) splitter
MaxSubN == 6     \* longest series given to the subsampling splitter
MaxLen == 3      \* largest initial_window, step_length and horizon
Res == 2         \* draws and fractions are multiples of 1/Res
NModels == 2     \* models of one evaluate call, in declaration order
MaxEvalN == 3    \* longest series of an evaluate call with misbehaving models
MaxFitDraws == 1 \* most calls of random.random() the fits of one model make
MaxT == 2        \* timestamps a forecast handed to the scoring stage can carry
MaxDay == 7      \* days of the frame given to DayOffIndicatorCreator

\* ------------------------------------------------------- program constants
DEFAULT_SEED == 42

VARIABLES
    n,          \* len(y)
    args,       \* the arguments the splitter is constructed from
    ctor,       \* "new" | "ok" | "ValueError": outcome of the constructor
    splitter,   \* the constructed splitter object (its attributes)
    rng,        \* state of the process-wide generator of module random
    stream,     \* the draws random.random() yields after random.seed(DEFAULT_SEED),
                \* as far as they have been drawn
    pc,         \* position of TSBacktesting.evaluate / _evaluate
    mi,         \* index of the model whose loop runs (1-based)
    gen,        \* the window generator of the running loop
    cur,        \* the window the loop body is working on
    results,    \* _evaluate's local results: the predictions concatenated so far
    exc,        \* the exception in flight in _evaluate ("none" when none), or
                \* the one evaluate was left with
    res,        \* evaluate's dict res: model index -> forecast series
    errors,     \* self._errors: "empty" until _calculate_errors has run
    scores,     \* the rows of self._errors: per model its value of each metric
    view,       \* what the property errors_ returned when it was last read
    table,      \* the forecast table evaluate returns
    y,          \* the target series: position -> value
    pred,       \* per model the value it forecasts at each position
    split,      \* what a call of split_series was given and has returned or
                \* raised
    fs,         \* the file system: what each path is
    mk,         \* the path create_directory was called with directly
    deco,       \* the decorators around evaluate and how far their call is
    exo,        \* the holidays DayOffIndicatorCreator has read from its file
    df,         \* the IS_DAY_OFF column DayOffIndicatorCreator has added
    hist        \* history, for stating properties: per model what its loop did

vars == <<n, args, ctor, splitter, rng, stream, pc, mi, gen, cur, results, exc,
          res, errors, scores, view, table, y, pred, split, hist,
          fs, mk, deco, exo, df>>

\* ------------------------------------------------------------- arithmetic
Max(a, b) == IF a >= b THEN a ELSE b

SetMax(S) == CHOOSE x \in S : \A z \in S : z <= x

SetMin(S) == CHOOSE x \in S : \A z \in S : x <= z

RECURSIVE Arange(_, _, _)
\* numpy.arange(start, stop, step) for step > 0, as a sequence
Arange(start, stop, step) ==
    IF start >= stop THEN <<>>
    ELSE <<start>> \o Arange(start + step, stop, step)

RECURSIVE Ascending(_)
\* the elements of a finite set of integers in ascending order
Ascending(S) ==
    IF S = {} THEN <<>>
    ELSE <<SetMin(S)>> \o Ascending(S \ {SetMin(S)})

\* ----------------------------------------------- the process-wide generator
\* Values random.random() can return: [0.0, 1.0) in units of 1/Res.
Draws == 0..(Res - 1)

\* The generator of a fresh process: seeded by the operating system.
BootRng == [seeded |-> FALSE, seed |-> 0, pos |-> 0]

\* random.seed(DEFAULT_SEED), what it would do with the seed dropped
SeedNotApplied(r) == r

\* random.seed(DEFAULT_SEED): the generator restarts its seed's stream.
Seeded(r) == [seeded |-> TRUE, seed |-> DEFAULT_SEED, pos |-> 0]

\* The values the next random.random() can return in generator state r: the
\* value the seed's stream has at that place once it is known, any value else.
NextDraws(r, st) ==
    IF r.seeded /\ r.pos < Len(st) THEN {st[r.pos + 1]} ELSE Draws

\* The generator after a loop pass that calls random.random() twice
AdvancedByTwo(r) == [r EXCEPT !.pos = @ + 2]

\* The generator after one random.random().
Advanced(r) == [r EXCEPT !.pos = @ + 1]

\* The seed's stream as known once draw d has been made in state r.
Known(r, st, d) ==
    IF r.seeded /\ r.pos = Len(st) THEN Append(st, d) ELSE st

\* --------------------------------------------------------------- splitters
\* ForecastingHorizon(list(range(0, step_length))): an off-by-one horizon
FhFromZero(h) == 0..(h - 1)

\* ForecastingHorizon(list(range(1, h + 1)), is_relative=True)
Fh(h) == 1..h

\* The factory with a horizon one step longer than step_length
GetSplitterLongHorizon(initial_window, step_length, testing, frac) ==
    [kind |-> IF testing THEN "testing" ELSE "expanding",
     fh |-> 1..(step_length + 1),
     initial_window |-> initial_window,
     step_length |-> step_length,
     frac |-> frac]

\* The factory with initial_window and step_length passed in each other's place
GetSplitterSwapped(initial_window, step_length, testing, frac) ==
    [kind |-> IF testing THEN "testing" ELSE "expanding",
     fh |-> 1..step_length,
     initial_window |-> step_length,
     step_length |-> initial_window,
     frac |-> frac]

\* get_splitter(intial_window, step_length, testing, frac): the constructor
\* call it makes; the horizon has as many steps as step_length.
GetSplitter(initial_window, step_length, testing, frac) ==
    [kind |-> IF testing THEN "testing" ELSE "expanding",
     fh |-> Fh(step_length),
     initial_window |-> initial_window,
     step_length |-> step_length,
     frac |-> frac]

\* The check of frac with the lower bound excluded
FracInRangeOpen(frac) == 0 < frac /\ frac <= Res

\* 0 <= frac <= 1
FracInRange(frac) == 0 <= frac /\ frac <= Res

\* The constructors: TestingSplitter.__init__ raises ValueError for a frac
\* outside [0, 1]; the other two take their arguments as they are.
ConstructorRaises(a) == a.kind = "testing" /\ ~FracInRange(a.frac)

NoSplitter ==
    [kind |-> "none", fh |-> {}, initial_window |-> 0, step_length |-> 0,
     frac |-> 0]

\* The split points of the base window splitter over a series of length len:
\* numpy.arange(window_length, len - max(fh) + 1, step_length).
SplitPoints(s, len) ==
    Arange(s.initial_window, len - SetMax(s.fh) + 1, s.step_length)

\* The window of split point sp: train is [train_start, sp), with train_start
\* 0 when expanding and sp - window_length when sliding; test is sp + fh - 1.
\* split() keeps the non-negative positions.
WindowAt(s, sp, expanding) ==
    LET train_start == IF expanding THEN 0 ELSE sp - s.initial_window
    IN [train |-> {i \in train_start..(sp - 1) : i >= 0},
        test |-> {t \in {sp + h - 1 : h \in s.fh} : t >= 0}]

\* _split_windows_generic(expanding, ...): the windows in order.
GenericWindows(s, len, expanding) ==
    LET sps == SplitPoints(s, len)
    IN [k \in 1..Len(sps) |-> WindowAt(s, sps[k], expanding)]

\* The base splitter refuses a series shorter than window_length + max(fh).
LengthCheckFails(s, len) == s.initial_window + SetMax(s.fh) > len

\* The logging loop with the first pair consumed by the counter
LoggedFromSecond(g) == IF g = <<>> THEN <<>> ELSE Tail(g)

\* for counter, (train, test) in enumerate(gen, start=1): log; yield train, test
Logged(g) == g

\* The sliding class deriving from the expanding base class
UnderlyingAllExpanding(s, len) ==
    CASE s.kind \in {"expanding", "sliding"} ->
             Logged(GenericWindows(s, len, TRUE))
      [] s.kind = "testing" -> GenericWindows(s, len, TRUE)
      [] OTHER -> <<>>

\* The windows the generator of splitter s walks through: those of the
\* expanding or sliding base splitter, passed on by the logging loop; the
\* subsampling splitter walks the expanding ones and draws for each.
Underlying(s, len) ==
    CASE s.kind = "expanding" -> Logged(GenericWindows(s, len, TRUE))
      [] s.kind = "sliding" -> Logged(GenericWindows(s, len, FALSE))
      [] s.kind = "testing" -> GenericWindows(s, len, TRUE)
      [] OTHER -> <<>>

\* The comparison inverted
RetainInverted(rand, frac) == rand >= frac

\* if rand <= self._frac
Retain(rand, frac) == rand <= frac

\* ------------------------------------------------------------ _evaluate
\* How control leaves _evaluate with exception e in flight ("none": the loop
\* ended): the finally clause returns results, and a return in a finally
\* clause discards the exception in flight, the re-raised interrupt included.
Leaves(e) == "return"

\* ----------------------------------------------------------- split_series
\* An argument left at its default None
None == 0 - 1

\* The slice with its end included
FirstOfInclusive(index, k) ==
    {t \in index : Cardinality({u \in index : u < t}) <= k}

\* The first k entries of an index (iloc[:k], and [:k] on a mask)
FirstOf(index, k) == {t \in index : Cardinality({u \in index : u < t}) < k}

NoSplit ==
    [out |-> "none", train |-> {}, test |-> {}, train_start |-> None,
     train_end |-> None, test_len |-> None]

\* split_series with "or" in place of "and" in the check of its arguments
SplitOfEitherMissing(index, train_start, train_end, test_len) ==
    LET kept == IF train_start = None THEN index
                ELSE {t \in index : t >= train_start}
        train == IF train_end = None THEN FirstOf(kept, test_len)
                 ELSE {t \in kept : t < train_end}
        rest == kept \ train
    IN IF train_end = None \/ test_len = None
       THEN [out |-> "ValueError", train |-> {}, test |-> {}]
       ELSE [out |-> "ok", train |-> train, test |-> FirstOf(rest, test_len)]

\* The indexes of (train, test) that split_series(y, train_start, train_end,
\* test_len) returns for a series of the given index, or its ValueError.
SplitOf(index, train_start, train_end, test_len) ==
    LET kept == IF train_start = None THEN index
                ELSE {t \in index : t >= train_start}
        train == IF train_end = None THEN FirstOf(kept, test_len)
                 ELSE {t \in kept : t < train_end}
        rest == kept \ train
    IN IF train_end = None /\ test_len = None
       THEN [out |-> "ValueError", train |-> {}, test |-> {}]
       ELSE [out |-> "ok", train |-> train,
             test |-> IF test_len = None THEN rest
                      ELSE FirstOf(rest, test_len)]

\* The filtering done on the caller's own object
CallerSeriesAliased(before, local) == local

\* The caller's series after split_series has worked on local: y = y.copy()
\* gives the function an object of its own, and every later step rebinds
\* the local name.
CallerSeries(before, local) == before

\* ------------------------------------------------- files and decorators
\* The paths of the data folder: the folder itself, the folders of the
\* results and of the plots, and a file of the results folder.  "." is the
\* working directory.
Paths == {"data", "data/results", "data/plots", "data/results/out.csv"}

FilePaths == {"data/results/out.csv"}

\* Path(p).parent
Parent(p) ==
    CASE p \in {"data/results", "data/plots"} -> "data"
      [] p = "data/results/out.csv" -> "data/results"
      [] OTHER -> "."

\* A file system says of each path whether it is a directory, a file or
\* nothing; what exists lies in a directory.
FileSystems ==
    {f \in [Paths -> {"none", "dir", "file"}] :
        \A p \in Paths :
            /\ f[p] = "file" => p \in FilePaths
            /\ f[p] = "dir" => p \notin FilePaths
            /\ f[p] # "none" => (Parent(p) = "." \/ f[Parent(p)] = "dir")}

AllThere == [p \in Paths |-> IF p \in FilePaths THEN "none" ELSE "dir"]

\* Path.exists(), Path.is_dir(), Path.is_file(): each asks the file system,
\* and a path that does not exist is neither a directory nor a file.
Exists(f, p) == p = "." \/ f[p] # "none"

IsDir(f, p) == p = "." \/ f[p] = "dir"

IsFile(f, p) == p # "." /\ f[p] = "file"

RECURSIVE UpTo(_)
\* p and the paths above it
UpTo(p) == IF p = "." THEN {} ELSE {p} \cup UpTo(Parent(p))

\* os.makedirs(p)
Makedirs(f, p) == [q \in Paths |-> IF q \in UpTo(p) THEN "dir" ELSE f[q]]

\* The file system after create_directory(path).
CreateDirectoryOn(f, path) ==
    IF Exists(f, path) THEN f
    ELSE LET f1 == IF IsDir(f, path) THEN Makedirs(f, path) ELSE f
         IN IF IsFile(f1, path) /\ ~Exists(f1, Parent(path))
            THEN Makedirs(f1, Parent(path))
            ELSE f1

NoTable == [index |-> {}, cols |-> <<>>, actual |-> <<>>]

\* The decorators given to TSBacktesting, first applied first.
DecoratorLists ==
    {<<>>, <<"save_results">>, <<"save_plots">>,
     <<"save_results", "save_plots">>, <<"save_plots", "save_results">>}

\* The folder a wrapper saves to.
FolderOf(w) == IF w = "save_results" THEN "data/results" ELSE "data/plots"

\* list: the decorators; next: the wrapper whose turn it is once the call it
\* wraps has returned (the first applied is the innermost); calls: how often
\* the core evaluate has been invoked; out: the table the outermost wrapper
\* has returned.
Decorated(list) ==
    [list |-> list, next |-> 1, calls |-> 0, out |-> NoTable]

Undecorated == Decorated(<<>>)

\* ------------------------------------------------ DayOffIndicatorCreator
\* A timestamp is a day, counted from a Monday, and an hour of that day.
Hours == {0, 12}

Stamp(d, h) == [day |-> d, hour |-> h]

\* Timestamp.day_name()
DayName(x) ==
    <<"Monday", "Tuesday", "Wednesday", "Thursday", "Friday", "Saturday",
      "Sunday">>[(x.day % 7) + 1]

\* x.replace(hour=0) in exo or x.day_name() in {"Sunday", "Suturday"}
IsDayOff(x, holidays) ==
    \/ Stamp(x.day, 0) \in holidays
    \/ DayName(x) \in {"Sunday", "Suturday"}

\* int(...)
ToInt(b) == IF b THEN 1 ELSE 0

\* -------------------------------------------------- tables and scoring
\* A series is a function from positions (its timestamps) to values.  The
\* values of the series are positive numbers; NaN stands for a missing value.
NaN == 0

Vals == {1, 2}

Abs(x) == IF x < 0 THEN 0 - x ELSE x

RECURSIVE GCD(_, _)
GCD(a, b) == IF b = 0 THEN a ELSE GCD(b, a % b)

\* A metric's value is a fraction num/den in lowest terms; 0/0 is the value
\* NaN of a metric.
Rat(nu, de) ==
    IF nu = 0 THEN [num |-> 0, den |-> 1]
    ELSE [num |-> nu \div GCD(nu, de), den |-> de \div GCD(nu, de)]

NaNScore == [num |-> 0, den |-> 0]

Zero == Rat(0, 1)

RatAdd(p, q) == Rat(p.num * q.den + q.num * p.den, p.den * q.den)

RECURSIVE RatSum(_)
RatSum(terms) ==
    IF terms = <<>> THEN Zero ELSE RatAdd(Head(terms), RatSum(Tail(terms)))

\* numpy's mean of the terms
Mean(terms) ==
    LET total == RatSum(terms)
    IN Rat(total.num, total.den * Len(terms))

\* p < q, with NaN after every number (na_position = "last")
Less(p, q) ==
    IF p = NaNScore THEN FALSE
    ELSE IF q = NaNScore THEN TRUE
    ELSE p.num * q.den < q.num * p.den

\* The timestamps of a forecast series (the positions concatenated by
\* _evaluate).
Stamps(series) == {series[i] : i \in 1..Len(series)}

\* pd.DataFrame(res).index: the union of the indexes of the series.
TableIndex(r) == UNION {Stamps(r[m]) : m \in 1..Len(r)}

\* The column of model m in pd.DataFrame(res): its forecast where it has
\* one, NaN at the timestamps only other models forecast.
Column(r, p, m, index) ==
    [t \in index |-> IF t \in Stamps(r[m]) THEN p[m][t] ELSE NaN]

\* The first len(index) values of the series, whatever their timestamps
ActualHead(actuals, index) ==
    [t \in index |-> actuals[Cardinality({u \in index : u < t})]]

\* y.loc[results.index]
ActualColumn(actuals, index) == [t \in index |-> actuals[t]]

\* The index of series.dropna()
Dropna(series) == {t \in DOMAIN series : series[t] # NaN}

\* mask = forecast.index.intersection(actuals.index), both after dropna()
Mask(forecast, actuals) == Dropna(forecast) \cap Dropna(actuals)

\* The metric called with the two series as they are, paired by position
PairedByPosition(forecast, actuals) ==
    LET ft == Ascending(Dropna(forecast))
        at == Ascending(Dropna(actuals))
        k == IF Len(ft) <= Len(at) THEN Len(ft) ELSE Len(at)
    IN [i \in 1..k |-> [a |-> actuals[at[i]], f |-> forecast[ft[i]]]]

\* The metric called with the forecast first and the actuals second
ForecastFirst(forecast, actuals) ==
    LET ts == Ascending(Mask(forecast, actuals))
    IN [i \in 1..Len(ts) |-> [a |-> forecast[ts[i]], f |-> actuals[ts[i]]]]

\* The pairs (actuals.loc[mask], forecast.loc[mask]) a metric is called
\* with, in index order: a the actual value, f the forecast.
AlignedPairs(forecast, actuals) ==
    LET ts == Ascending(Mask(forecast, actuals))
    IN [i \in 1..Len(ts) |-> [a |-> actuals[ts[i]], f |-> forecast[ts[i]]]]

\* MeanAbsolutePercentageError()(y_true, y_pred): mean of |a - f| / |a|
MeanAbsolutePercentageError(pairs) ==
    Mean([i \in 1..Len(pairs) |->
              Rat(Abs(pairs[i].a - pairs[i].f), Abs(pairs[i].a))])

\* MeanAbsoluteError()(y_true, y_pred): mean of |a - f|
MeanAbsoluteError(pairs) ==
    Mean([i \in 1..Len(pairs) |-> Rat(Abs(pairs[i].a - pairs[i].f), 1)])

\* MeanSquaredError(square_root=True)(y_true, y_pred): the root of the mean
\* of (a - f)^2.  The value is kept as its square: the root is increasing on
\* non-negative numbers, so order, equality and being 0 are those of the
\* square.
MeanSquaredError(pairs) ==
    Mean([i \in 1..Len(pairs) |->
              Rat((pairs[i].a - pairs[i].f) * (pairs[i].a - pairs[i].f), 1)])

\* DEFAULT_METRICS, in the order of the dict
MetricNames == <<"MAPE", "MAE", "RMSE">>

DEFAULT_METRICS(name, pairs) ==
    CASE name = "MAPE" -> MeanAbsolutePercentageError(pairs)
      [] name = "MAE" -> MeanAbsoluteError(pairs)
      [] name = "RMSE" -> MeanSquaredError(pairs)

\* _get_metrics(forecast, actuals): every metric on the aligned pairs.  On
\* no pair at all a mean has nothing to average: the value is NaN here, and
\* Aggregate has the other outcome, the metric refusing the empty input.
GetMetrics(forecast, actuals) ==
    LET pairs == AlignedPairs(forecast, actuals)
    IN [name \in Stamps(MetricNames) |->
            IF pairs = <<>> THEN NaNScore ELSE DEFAULT_METRICS(name, pairs)]

\* The comparison of the first column only
RowBeforeByFirst(a, b, by) ==
    by # <<>> /\ Less(a.score[Head(by)], b.score[Head(by)])

RECURSIVE RowBefore(_, _, _)
\* Row a sorts strictly before row b by the columns by, ascending
RowBefore(a, b, by) ==
    IF by = <<>> THEN FALSE
    ELSE \/ Less(a.score[Head(by)], b.score[Head(by)])
         \/ /\ a.score[Head(by)] = b.score[Head(by)]
            /\ RowBefore(a, b, Tail(by))

RECURSIVE Insert(_, _, _)
Insert(row, rows, by) ==
    IF rows = <<>> THEN <<row>>
    ELSE IF RowBefore(row, Head(rows), by) THEN <<row>> \o rows
    ELSE <<Head(rows)>> \o Insert(row, Tail(rows), by)

RECURSIVE SortValues(_, _)
\* rows.sort_values(by=by, ascending=True): a stable sort
SortValues(rows, by) ==
    IF rows = <<>> THEN <<>>
    ELSE Insert(rows[Len(rows)],
                SortValues(SubSeq(rows, 1, Len(rows) - 1), by), by)

NoView == [read |-> FALSE, rows |-> <<>>]

\* -------------------------------------------------------------- the state
Lens == 1..MaxLen

\* The ways a splitter is built: the two plain classes with any horizon, and
\* get_splitter, plain or subsampling, with frac on either side of [0, 1].
ClassArgs ==
    [via : {"class"}, kind : {"expanding", "sliding"}, initial_window : Lens,
     step_length : Lens, horizon : Lens, frac : {0}]

FactoryArgs ==
    [via : {"get_splitter"}, kind : {"expanding"}, initial_window : Lens,
     step_length : Lens, horizon : {0}, frac : {0}]
    \cup
    [via : {"get_splitter"}, kind : {"testing"}, initial_window : Lens,
     step_length : Lens, horizon : {0}, frac : (0 - 1)..(Res + 1)]

\* The horizon length a splitter built from arguments a forecasts.
Horizon(a) == IF a.via = "get_splitter" THEN a.step_length ELSE a.horizon

Models == 1..NModels

NoWindow == [train |-> {}, test |-> {}]

\* A generator object that starts behind the first window
GenFromSecond == [state |-> "INIT", cursor |-> 1]

FreshGen == [state |-> "INIT", cursor |-> 0]

\* Per model: the windows its loop was handed, the windows whose prediction
\* was appended, how the loop ended, and the generator of module random
\* when the loop's iteration began and ended.
FreshHist ==
    [seen |-> <<>>, done |-> <<>>, end |-> "none", rng0 |-> BootRng,
     rng1 |-> BootRng, drew |-> 0]

InitWith(plainN, subN) ==
    /\ args \in ClassArgs \cup FactoryArgs
    /\ n \in 1..(IF args.kind = "testing" THEN subN ELSE plainN)
    /\ ctor = "new"
    /\ splitter = NoSplitter
    /\ rng = BootRng
    /\ stream = <<>>
    /\ pc = "new"
    /\ mi = 0
    /\ gen = FreshGen
    /\ cur = NoWindow
    /\ results = <<>>
    /\ exc = "none"
    /\ res = <<>>
    /\ errors = "empty"
    /\ scores = <<>>
    /\ view = NoView
    /\ table = NoTable
    /\ split = NoSplit
    /\ fs = AllThere
    /\ mk = "none"
    /\ deco = Undecorated
    /\ exo = {}
    /\ df = <<>>
    /\ y = [t \in 0..(n - 1) |-> t + 1]
    /\ pred = [m \in Models |-> [t \in 0..(n - 1) |-> t + m]]
    /\ hist = [m \in Models |-> FreshHist]

\* The splitter's constructor: get_splitter(...) or a class called directly.
Construct ==
    /\ pc = "new"
    /\ LET a == IF args.via = "get_splitter"
                THEN GetSplitter(args.initial_window, args.step_length,
                                 args.kind = "testing", args.frac)
                ELSE [kind |-> args.kind, fh |-> Fh(args.horizon),
                      initial_window |-> args.initial_window,
                      step_length |-> args.step_length, frac |-> args.frac]
       IN IF ConstructorRaises(a)
          THEN /\ ctor' = "ValueError"
               /\ pc' = "ctor_failed"
               /\ UNCHANGED splitter
          ELSE /\ ctor' = "ok"
               /\ pc' = "ready"
               /\ splitter' = a
    /\ UNCHANGED <<n, args, rng, stream, mi, gen, cur, results, exc, res,
                   errors, scores, view, table, y, pred, split, hist, fs, mk,
                   deco, exo, df>>

\* TSBacktesting(splitter, models).evaluate(y) up to its loop over the models.
Evaluate ==
    /\ pc = "ready"
    /\ pc' = "model"
    /\ mi' = 1
    /\ res' = <<>>
    /\ deco' = [deco EXCEPT !.calls = @ + 1]
    /\ UNCHANGED <<n, args, ctor, splitter, rng, stream, gen, cur, results,
                   exc, errors, scores, view, table, y, pred, split, hist,
                   fs, mk, exo, df>>

\* The loop entered on the iterator the model before has left behind
EnterModelKeepsIterator ==
    /\ pc = "model"
    /\ pc' = "next"
    /\ results' = <<>>
    /\ exc' = "none"
    /\ hist' = [hist EXCEPT ![mi].rng0 = rng]
    /\ UNCHANGED <<n, args, ctor, splitter, rng, stream, mi, gen, cur, res,
                   errors, scores, view, table, y, pred, split, fs, mk, deco,
                   exo, df>>

\* _evaluate(y, model, splitter) is entered for model mi: results = pd.Series()
\* and splitter.split(y) makes a generator, none of whose code has run yet.
EnterModel ==
    /\ pc = "model"
    /\ pc' = "next"
    /\ results' = <<>>
    /\ gen' = FreshGen
    /\ exc' = "none"
    /\ hist' = [hist EXCEPT ![mi].rng0 = rng]
    /\ UNCHANGED <<n, args, ctor, splitter, rng, stream, mi, cur, res,
                   errors, scores, view, table, y, pred, split, fs, mk, deco,
                   exo, df>>

\* The loop asks for the first window and the series is too short for one:
\* the base splitter raises ValueError before _split_windows runs.
SplitRaises ==
    /\ pc = "next"
    /\ gen.state = "INIT"
    /\ LengthCheckFails(splitter, n)
    /\ gen' = [gen EXCEPT !.state = "EXHAUSTED"]
    /\ exc' = "ValueError"
    /\ pc' = "ret"
    /\ hist' = [hist EXCEPT ![mi].end = "ValueError", ![mi].rng1 = rng]
    /\ UNCHANGED <<n, args, ctor, splitter, rng, stream, mi, cur, results,
                   res, errors, scores, view, table, y, pred, split, fs, mk,
                   deco, exo, df>>

\* The loop asks for the first window: _split_windows starts, and the
\* subsampling splitter seeds module random.
GenStart ==
    /\ pc = "next"
    /\ gen.state = "INIT"
    /\ ~LengthCheckFails(splitter, n)
    /\ gen' = [gen EXCEPT !.state = "ITERATING"]
    /\ rng' = IF splitter.kind = "testing" THEN Seeded(rng) ELSE rng
    /\ UNCHANGED <<n, args, ctor, splitter, stream, pc, mi, cur, results,
                   exc, res, errors, scores, view, table, y, pred, split,
                   hist, fs, mk, deco, exo, df>>

\* The generator has no window left: the for loop ends.
GenExhausted ==
    /\ pc = "next"
    /\ gen.state = "ITERATING"
    /\ gen.cursor = Len(Underlying(splitter, n))
    /\ gen' = [gen EXCEPT !.state = "EXHAUSTED"]
    /\ pc' = "ret"
    /\ hist' = [hist EXCEPT ![mi].end = "exhausted", ![mi].rng1 = rng]
    /\ UNCHANGED <<n, args, ctor, splitter, rng, stream, mi, cur, results,
                   exc, res, errors, scores, view, table, y, pred, split, fs,
                   mk, deco, exo, df>>

\* A plain splitter yields its next window to the loop body.
GenYield ==
    /\ pc = "next"
    /\ gen.state = "ITERATING"
    /\ splitter.kind # "testing"
    /\ gen.cursor < Len(Underlying(splitter, n))
    /\ LET w == Underlying(splitter, n)[gen.cursor + 1]
       IN /\ cur' = w
          /\ hist' = [hist EXCEPT ![mi].seen = Append(@, w)]
    /\ gen' = [gen EXCEPT !.cursor = @ + 1]
    /\ pc' = "fit"
    /\ UNCHANGED <<n, args, ctor, splitter, rng, stream, mi, results, exc,
                   res, errors, scores, view, table, y, pred, split, fs, mk,
                   deco, exo, df>>

\* One pass of the subsampling loop: take the next expanding window, draw
\* rand = random.random(), and yield the window if rand <= frac.
GenDraw ==
    /\ pc = "next"
    /\ gen.state = "ITERATING"
    /\ splitter.kind = "testing"
    /\ gen.cursor < Len(Underlying(splitter, n))
    /\ \E rand \in NextDraws(rng, stream) :
         LET w == Underlying(splitter, n)[gen.cursor + 1]
         IN /\ rng' = Advanced(rng)
            /\ stream' = Known(rng, stream, rand)
            /\ IF Retain(rand, splitter.frac)
               THEN /\ cur' = w
                    /\ hist' = [hist EXCEPT ![mi].seen = Append(@, w)]
                    /\ pc' = "fit"
               ELSE UNCHANGED <<cur, hist, pc>>
    /\ gen' = [gen EXCEPT !.cursor = @ + 1]
    /\ UNCHANGED <<n, args, ctor, splitter, mi, results, exc, res, errors,
                   scores, view, table, y, pred, split, fs, mk, deco, exo,
                   df>>

\* model.fit(y.iloc[train], X=exo, fh=splitter.fh) returns.
Fit ==
    /\ pc = "fit"
    /\ pc' = "predict"
    /\ UNCHANGED <<n, args, ctor, splitter, rng, stream, mi, gen, cur,
                   results, exc, res, errors, scores, view, table, y, pred,
                   split, hist, fs, mk, deco, exo, df>>

\* model.fit returns after calling random.random() itself, as a model may.
FitDraws ==
    /\ pc = "fit"
    /\ hist[mi].drew < MaxFitDraws
    /\ \E rand \in NextDraws(rng, stream) :
         /\ rng' = Advanced(rng)
         /\ stream' = Known(rng, stream, rand)
    /\ pc' = "predict"
    /\ hist' = [hist EXCEPT ![mi].drew = @ + 1]
    /\ UNCHANGED <<n, args, ctor, splitter, mi, gen, cur, results, exc, res,
                   errors, scores, view, table, y, pred, split, fs, mk, deco,
                   exo, df>>

\* Only the first step of the prediction appended
PredictAppendsFirstStep ==
    /\ pc = "predict"
    /\ results' = results \o <<SetMin(cur.test)>>
    /\ hist' = [hist EXCEPT ![mi].done = Append(@, cur)]
    /\ pc' = "next"
    /\ UNCHANGED <<n, args, ctor, splitter, rng, stream, mi, gen, cur, exc,
                   res, errors, scores, view, table, y, pred, split, fs, mk,
                   deco, exo, df>>

\* The prediction put in front of the series instead of behind it
PredictPrepends ==
    /\ pc = "predict"
    /\ results' = Ascending(cur.test) \o results
    /\ hist' = [hist EXCEPT ![mi].done = Append(@, cur)]
    /\ pc' = "next"
    /\ UNCHANGED <<n, args, ctor, splitter, rng, stream, mi, gen, cur, exc,
                   res, errors, scores, view, table, y, pred, split, fs, mk,
                   deco, exo, df>>

\* model_trained.predict(fh=splitter.fh, X=exo) returns the forecast of the
\* test positions and results = pd.concat((results, pred)) appends it.
Predict ==
    /\ pc = "predict"
    /\ results' = results \o Ascending(cur.test)
    /\ hist' = [hist EXCEPT ![mi].done = Append(@, cur)]
    /\ pc' = "next"
    /\ UNCHANGED <<n, args, ctor, splitter, rng, stream, mi, gen, cur, exc,
                   res, errors, scores, view, table, y, pred, split, fs, mk,
                   deco, exo, df>>

\* fit or predict raises an error of the model's own.
ModelRaises ==
    /\ pc \in {"fit", "predict"}
    /\ exc' = "ModelError"
    /\ pc' = "ret"
    /\ hist' = [hist EXCEPT ![mi].end = "ModelError", ![mi].rng1 = rng]
    /\ UNCHANGED <<n, args, ctor, splitter, rng, stream, mi, gen, cur,
                   results, res, errors, scores, view, table, y, pred, split,
                   fs, mk, deco, exo, df>>

\* The interrupt with the prediction in progress still appended
InterruptKeepsWindow ==
    /\ pc \in {"next", "fit", "predict"}
    /\ exc' = "KeyboardInterrupt"
    /\ pc' = "ret"
    /\ results' = IF pc = "predict" THEN results \o Ascending(cur.test)
                  ELSE results
    /\ hist' = [hist EXCEPT ![mi].end = "KeyboardInterrupt", ![mi].rng1 = rng]
    /\ UNCHANGED <<n, args, ctor, splitter, rng, stream, mi, gen, cur, res,
                   errors, scores, view, table, y, pred, split, fs, mk, deco,
                   exo, df>>

\* KeyboardInterrupt arrives while the loop of _evaluate runs: in the
\* generator, in fit or in predict.  except KeyboardInterrupt: raise.
Interrupt ==
    /\ pc \in {"next", "fit", "predict"}
    /\ exc' = "KeyboardInterrupt"
    /\ pc' = "ret"
    /\ hist' = [hist EXCEPT ![mi].end = "KeyboardInterrupt", ![mi].rng1 = rng]
    /\ UNCHANGED <<n, args, ctor, splitter, rng, stream, mi, gen, cur,
                   results, res, errors, scores, view, table, y, pred, split,
                   fs, mk, deco, exo, df>>

\* _evaluate is left and evaluate goes on: with the returned series it sets
\* res[name] and takes the next model; on KeyboardInterrupt it breaks out of
\* the loop over the models; any other exception leaves evaluate.
LeaveModel ==
    /\ pc = "ret"
    /\ CASE Leaves(exc) = "return" ->
              /\ res' = Append(res, results)
              /\ mi' = mi + 1
              /\ pc' = IF mi < NModels THEN "model" ELSE "aggregate"
         [] Leaves(exc) = "raise" /\ exc = "KeyboardInterrupt" ->
              /\ pc' = "aggregate"
              /\ UNCHANGED <<res, mi>>
         [] OTHER ->
              /\ pc' = "raised"
              /\ UNCHANGED <<res, mi>>
    /\ UNCHANGED <<n, args, ctor, splitter, rng, stream, gen, cur, results,
                   exc, errors, scores, view, table, y, pred, split, hist,
                   fs, mk, deco, exo, df>>

\* After the loop: results = pd.DataFrame(res); self._errors =
\* self._calculate_errors(results, y), which calls _get_metrics on every
\* column; results["actual"] = y.loc[results.index]; return results.
\* A column without a single pair aligned with y hands the metrics an empty
\* input: the metric either refuses it (the error leaves evaluate) or
\* yields NaN.  y.loc raises KeyError for a timestamp y does not have.
Aggregate ==
    /\ pc = "aggregate"
    /\ LET index == TableIndex(res)
           cols == [m \in 1..Len(res) |-> Column(res, pred, m, index)]
       IN \/ /\ \E m \in 1..Len(res) : AlignedPairs(cols[m], y) = <<>>
             /\ pc' = "raised"
             /\ exc' = "ValueError"
             /\ UNCHANGED <<errors, scores, table>>
          \/ /\ errors' = "computed"
             /\ scores' = [m \in 1..Len(res) |->
                              [model |-> m, score |-> GetMetrics(cols[m], y)]]
             /\ IF index \subseteq DOMAIN y
                THEN /\ table' = [index |-> index, cols |-> cols,
                                  actual |-> ActualColumn(y, index)]
                     /\ pc' = "returned"
                     /\ exc' = exc
                ELSE /\ pc' = "raised"
                     /\ exc' = "KeyError"
                     /\ table' = table
    /\ UNCHANGED <<n, args, ctor, splitter, rng, stream, mi, gen, cur,
                   results, res, view, y, pred, split, hist, fs, mk, deco,
                   exo, df>>

\* The property errors_, read after evaluate has ended: self._errors sorted
\* by all its columns, ascending.
ErrorsProperty ==
    /\ pc \in {"returned", "raised"}
    /\ ~view.read
    /\ view' = [read |-> TRUE, rows |-> SortValues(scores, MetricNames)]
    /\ UNCHANGED <<n, args, ctor, splitter, rng, stream, pc, mi, gen, cur,
                   results, exc, res, errors, scores, table, y, pred, split,
                   hist, fs, mk, deco, exo, df>>

\* split_series(y, train_start, train_end, test_len), called on the series
\* instead of an evaluation.
SplitSeries ==
    /\ pc = "new"
    /\ \E train_start \in {None} \cup 0..n, train_end \in {None} \cup 0..n,
          test_len \in {None} \cup 0..n :
           /\ LET r == SplitOf(DOMAIN y, train_start, train_end, test_len)
              IN split' = [out |-> r.out, train |-> r.train, test |-> r.test,
                           train_start |-> train_start,
                           train_end |-> train_end, test_len |-> test_len]
           /\ y' = CallerSeries(y,
                      [t \in {u \in DOMAIN y :
                                  train_start = None \/ u >= train_start}
                          |-> y[t]])
    /\ pc' = "split"
    /\ UNCHANGED <<n, args, ctor, splitter, rng, stream, mi, gen, cur,
                   results, exc, res, errors, scores, view, table, pred,
                   hist, fs, mk, deco, exo, df>>

\* create_directory(path), called on its own.
CreateDirectory ==
    /\ pc = "new"
    /\ \E path \in Paths :
           /\ mk' = path
           /\ fs' = CreateDirectoryOn(fs, path)
    /\ pc' = "created"
    /\ UNCHANGED <<n, args, ctor, splitter, rng, stream, mi, gen, cur,
                   results, exc, res, errors, scores, view, table, y, pred,
                   split, deco, hist, exo, df>>

\* The wrapper of save_results or save_plots goes on after out = f(...) has
\* returned: create_directory(folder), then out.to_csv(path) or, per model
\* column, plt.savefig(path), which fail in a folder that does not exist;
\* return out.
WrapperReturns ==
    /\ pc = "returned"
    /\ deco.next <= Len(deco.list)
    /\ LET w == deco.list[deco.next]
           f1 == CreateDirectoryOn(fs, FolderOf(w))
       IN IF IsDir(f1, FolderOf(w))
          THEN /\ fs' = IF w = "save_results"
                        THEN [f1 EXCEPT !["data/results/out.csv"] = "file"]
                        ELSE f1
               /\ deco' = [deco EXCEPT
                              !.next = @ + 1,
                              !.out = IF deco.next = Len(deco.list)
                                      THEN table ELSE @]
               /\ UNCHANGED <<pc, exc>>
          ELSE /\ fs' = f1
               /\ pc' = "raised"
               /\ exc' = "OSError"
               /\ UNCHANGED deco
    /\ UNCHANGED <<n, args, ctor, splitter, rng, stream, mi, gen, cur,
                   results, res, errors, scores, view, table, y, pred, split,
                   mk, hist, exo, df>>

\* DayOffIndicatorCreator._transform(X, exo) on a frame X with a row for
\* every hour of Hours of the days 0..MaxDay-1: df[self.column] = list(map(int,
\* ind)).
Transform ==
    /\ pc = "new"
    /\ df = <<>>
    /\ df' = [x \in {Stamp(d, h) : d \in 0..(MaxDay - 1), h \in Hours}
                 |-> ToInt(IsDayOff(x, exo))]
    /\ pc' = "transformed"
    /\ UNCHANGED <<n, args, ctor, splitter, rng, stream, mi, gen, cur, results,
                   exc, res, errors, scores, view, table, y, pred, split, fs,
                   mk, deco, exo, hist>>

\* One evaluate call over a short series, with models whose fit or predict
\* may raise and a user who may interrupt; or one call of split_series.
Init == InitWith(MaxEvalN, MaxEvalN)

Next ==
    \/ Construct
    \/ Evaluate
    \/ EnterModel
    \/ SplitRaises
    \/ GenStart
    \/ GenExhausted
    \/ GenYield
    \/ GenDraw
    \/ Fit
    \/ Predict
    \/ ModelRaises
    \/ Interrupt
    \/ LeaveModel
    \/ Aggregate
    \/ ErrorsProperty
    \/ SplitSeries

Spec == Init /\ [][Next]_vars

\* One evaluate call with models that return from fit and predict and leave
\* module random alone: each model's loop is one full iteration of the splitter.
InitSplit == InitWith(MaxN, MaxSubN)

NextSplit ==
    \/ Construct
    \/ Evaluate
    \/ EnterModel
    \/ SplitRaises
    \/ GenStart
    \/ GenExhausted
    \/ GenYield
    \/ GenDraw
    \/ Fit
    \/ Predict
    \/ LeaveModel
    \/ Aggregate

SpecSplit == InitSplit /\ [][NextSplit]_vars

\* One evaluate call with the subsampling splitter and models whose fit may
\* call random.random().
InitRandom == InitWith(MaxEvalN, MaxEvalN) /\ args.kind = "testing"

NextRandom ==
    \/ Construct
    \/ Evaluate
    \/ EnterModel
    \/ SplitRaises
    \/ GenStart
    \/ GenExhausted
    \/ GenDraw
    \/ Fit
    \/ FitDraws
    \/ Predict
    \/ LeaveModel
    \/ Aggregate

SpecRandom == InitRandom /\ [][NextRandom]_vars

\* The scoring stage of evaluate on any forecasts: the loop over the models
\* has left in res, for every model, a forecast at any of MaxT timestamps,
\* at a level of the model's own; y has the first n of those timestamps,
\* with any values, missing ones among them.
InitScore ==
    /\ n \in 1..MaxT
    /\ y \in [0..(n - 1) -> Vals \cup {NaN}]
    /\ \E stamps \in [Models -> SUBSET (0..(MaxT - 1))], level \in [Models -> Vals] :
           pred = [m \in Models |->
                      [t \in 0..(MaxT - 1) |->
                           IF t \in stamps[m] THEN level[m] ELSE NaN]]
    /\ res = [m \in Models |-> Ascending(Dropna(pred[m]))]
    /\ args = [via |-> "get_splitter", kind |-> "expanding",
               initial_window |-> 1, step_length |-> 1, horizon |-> 0,
               frac |-> 0]
    /\ ctor = "ok"
    /\ splitter = GetSplitter(1, 1, FALSE, 0)
    /\ rng = BootRng
    /\ stream = <<>>
    /\ pc = "aggregate"
    /\ mi = NModels + 1
    /\ gen = [state |-> "EXHAUSTED", cursor |-> 0]
    /\ cur = NoWindow
    /\ results = <<>>
    /\ exc = "none"
    /\ errors = "empty"
    /\ scores = <<>>
    /\ view = NoView
    /\ table = NoTable
    /\ split = NoSplit
    /\ fs = AllThere
    /\ mk = "none"
    /\ deco = Undecorated
    /\ exo = {}
    /\ df = <<>>
    /\ hist = [m \in Models |-> FreshHist]

NextScore ==
    \/ Aggregate
    \/ ErrorsProperty

SpecScore == InitScore /\ [][NextScore]_vars

\* One call of split_series on a series of up to MaxN points, with every
\* combination of a start, an end and a test length, given or left out.
InitSeries ==
    /\ InitWith(MaxN, MaxN)
    /\ args = [via |-> "get_splitter", kind |-> "expanding",
               initial_window |-> 1, step_length |-> 1, horizon |-> 0,
               frac |-> 0]

NextSeries == SplitSeries

SpecSeries == InitSeries /\ [][NextSeries]_vars

\* The data folder in any state, and on it either one call of
\* create_directory or one call of evaluate, decorated or not, with models
\* that do not fail.
InitFiles ==
    /\ n \in 1..MaxEvalN
    /\ args = [via |-> "get_splitter", kind |-> "expanding",
               initial_window |-> 1, step_length |-> 1, horizon |-> 0,
               frac |-> 0]
    /\ fs \in FileSystems
    /\ \E list \in DecoratorLists : deco = Decorated(list)
    /\ mk = "none"
    /\ exo = {}
    /\ df = <<>>
    /\ ctor = "new"
    /\ splitter = NoSplitter
    /\ rng = BootRng
    /\ stream = <<>>
    /\ pc = "new"
    /\ mi = 0
    /\ gen = FreshGen
    /\ cur = NoWindow
    /\ results = <<>>
    /\ exc = "none"
    /\ res = <<>>
    /\ errors = "empty"
    /\ scores = <<>>
    /\ view = NoView
    /\ table = NoTable
    /\ split = NoSplit
    /\ y = [t \in 0..(n - 1) |-> t + 1]
    /\ pred = [m \in Models |-> [t \in 0..(n - 1) |-> t + m]]
    /\ hist = [m \in Models |-> FreshHist]

NextFiles ==
    \/ CreateDirectory
    \/ Construct
    \/ Evaluate
    \/ EnterModel
    \/ SplitRaises
    \/ GenStart
    \/ GenExhausted
    \/ GenYield
    \/ Fit
    \/ Predict
    \/ LeaveModel
    \/ Aggregate
    \/ WrapperReturns

SpecFiles == InitFiles /\ [][NextFiles]_vars

\* DayOffIndicatorCreator on MaxDay days, with any of them holidays of the
\* holiday file (which lists dates, at midnight).
InitDayOff ==
    /\ n = 1
    /\ args = [via |-> "get_splitter", kind |-> "expanding",
               initial_window |-> 1, step_length |-> 1, horizon |-> 0,
               frac |-> 0]
    /\ exo \in SUBSET {Stamp(d, 0) : d \in 0..(MaxDay - 1)}
    /\ df = <<>>
    /\ fs = AllThere
    /\ deco = Undecorated
    /\ mk = "none"
    /\ ctor = "new"
    /\ splitter = NoSplitter
    /\ rng = BootRng
    /\ stream = <<>>
    /\ pc = "new"
    /\ mi = 0
    /\ gen = FreshGen
    /\ cur = NoWindow
    /\ results = <<>>
    /\ exc = "none"
    /\ res = <<>>
    /\ errors = "empty"
    /\ scores = <<>>
    /\ view = NoView
    /\ table = NoTable
    /\ split = NoSplit
    /\ y = [t \in 0..(n - 1) |-> t + 1]
    /\ pred = [m \in Models |-> [t \in 0..(n - 1) |-> t + m]]
    /\ hist = [m \in Models |-> FreshHist]

NextDayOff == Transform

SpecDayOff == InitDayOff /\ [][NextDayOff]_vars

\* ------------------------------------------------------------- properties
RECURSIVE ForecastOver(_)
\* The forecast series a model's loop builds from windows ws, in order.
ForecastOver(ws) ==
    IF ws = <<>> THEN <<>>
    ELSE Ascending(Head(ws).test) \o ForecastOver(Tail(ws))

\* The loop of model m has ended without an exception of the model or the user.
RanOut(m) == hist[m].end \in {"exhausted", "ValueError"}

\* C1: one full iteration of an expanding splitter over a series of length N
\* with initial window I, step S and horizon H hands out exactly
\* max(0, floor((N - I - H) / S) + 1) windows.
C1_WindowCount ==
    \A m \in Models :
        (args.kind = "expanding" /\ RanOut(m)) =>
            Len(hist[m].seen) =
                Max(0, ((n - args.initial_window - Horizon(args))
                            \div args.step_length) + 1)

\* C1's case: 9 points, I = S = H = 3, iterated to the end, gave 2 windows.
C1_Witness ==
    /\ args.kind = "expanding"
    /\ n = 9
    /\ args.initial_window = 3
    /\ args.step_length = 3
    /\ Horizon(args) = 3
    /\ hist[1].end = "exhausted"
    /\ Len(hist[1].seen) = 2

\* C2: when KeyboardInterrupt ends the loop of model m after k windows were
\* completed, evaluate still returns (it never ends by raising), the series
\* of m is the forecast of exactly those k windows, and every later model is
\* evaluated: one that ends without an exception has the forecast of every
\* window its iteration handed out, which for a plain splitter is every
\* window of the splitter.
C2_CancellationKeepsPartial ==
    \A m \in Models :
        hist[m].end = "KeyboardInterrupt" =>
            /\ pc # "raised"
            /\ pc = "returned" =>
                 /\ Len(res) = NModels
                 /\ LET k == Len(hist[m].done)
                    IN /\ k <= Len(hist[m].seen)
                       /\ res[m] = ForecastOver(SubSeq(hist[m].seen, 1, k))
                 /\ \A m2 \in Models :
                        (m2 > m /\ hist[m2].end = "exhausted") =>
                            /\ res[m2] = ForecastOver(hist[m2].seen)
                            /\ splitter.kind # "testing" =>
                                 hist[m2].seen = Underlying(splitter, n)

\* C3, as claimed: once fit or predict of model m has raised an error of the
\* model's own, evaluate ends by raising it: no series of m is stored, no
\* later model runs and no error table is computed.
C3_ModelErrorAborts ==
    \A m \in Models :
        hist[m].end = "ModelError" =>
            /\ mi = m
            /\ pc \in {"ret", "raised"}
            /\ Len(res) < m
            /\ errors = "empty"

\* C4, as claimed: in one evaluate call with the subsampling splitter every
\* model is fitted and predicted on the same retained windows, whatever the
\* fits do between two windows.
C4_SameWindowsForEveryModel ==
    (pc = "returned" /\ splitter.kind = "testing") =>
        \A m1, m2 \in Models :
            (RanOut(m1) /\ RanOut(m2)) => hist[m1].done = hist[m2].done

\* C5: two full, uninterrupted iterations of the subsampling splitter (same
\* seed, same frac, same series) hand out the same windows in the same order.
C5_SameSeedSameWindows ==
    \A m1, m2 \in Models :
        (splitter.kind = "testing" /\ RanOut(m1) /\ RanOut(m2)) =>
            hist[m1].seen = hist[m2].seen

\* C5's case: two iterations have ended, each kept some windows and dropped
\* others.
C5_Witness ==
    /\ splitter.kind = "testing"
    /\ hist[1].end = "exhausted"
    /\ hist[2].end = "exhausted"
    /\ hist[2].seen # <<>>
    /\ Len(hist[2].seen) < Len(Underlying(splitter, n))

\* C6, as claimed: a subsampling splitter with frac = 0.0 hands out no
\* window, whatever the generator draws.
C6_ZeroFracEmitsNothing ==
    (splitter.kind = "testing" /\ splitter.frac = 0) =>
        \A m \in Models : hist[m].seen = <<>>

\* C7: a subsampling splitter with frac = 1.0 hands out exactly the windows
\* of the expanding splitter with the same parameters, in the same order.
C7_FullFracIsExpanding ==
    \A m \in Models :
        (splitter.kind = "testing" /\ splitter.frac = Res
            /\ hist[m].end = "exhausted") =>
            hist[m].seen =
                Underlying([splitter EXCEPT !.kind = "expanding"], n)

\* C7's case: frac = 1.0 and an iteration that handed out several windows.
C7_Witness ==
    /\ splitter.kind = "testing"
    /\ splitter.frac = Res
    /\ hist[1].end = "exhausted"
    /\ Len(hist[1].seen) >= 2

\* C8, as claimed: a full iteration of the subsampling splitter leaves the
\* process-wide generator as it found it.
C8_GlobalGeneratorUntouched ==
    \A m \in Models :
        (splitter.kind = "testing" /\ hist[m].end = "exhausted") =>
            hist[m].rng1 = hist[m].rng0

\* C9: constructing a subsampling splitter raises ValueError exactly when
\* frac is outside [0, 1] (0 and 1 are accepted), and it does so in the
\* constructor: no splitter exists, no model has run, no window was produced.
C9_FracValidatedAtConstruction ==
    /\ (pc # "new" /\ args.kind = "testing") =>
          (ctor = "ValueError" <=> (args.frac < 0 \/ args.frac > Res))
    /\ ctor = "ValueError" =>
          /\ pc = "ctor_failed"
          /\ splitter = NoSplitter
          /\ mi = 0
          /\ res = <<>>
          /\ \A m \in Models : hist[m] = FreshHist

\* C9's case: frac above 1 was refused by the constructor.
C9_Witness ==
    /\ ctor = "ValueError"
    /\ args.kind = "testing"
    /\ args.frac > Res

\* C10: every window any splitter hands out has a test range of exactly
\* horizon positions that starts right after the last train position.
C10_TestFollowsTrain ==
    \A m \in Models :
        \A i \in 1..Len(hist[m].seen) :
            LET w == hist[m].seen[i]
            IN /\ w.train # {}
               /\ Cardinality(w.test) = Horizon(args)
               /\ w.test = (SetMax(w.train) + 1)..(SetMax(w.train) + Horizon(args))

\* C10's case: a sliding splitter with a horizon of several steps has handed
\* out its second window.
C10_Witness ==
    /\ splitter.kind = "sliding"
    /\ Horizon(args) >= 2
    /\ Len(hist[1].seen) >= 2

\* The end of the train range of window w: one past its last position.
TrainEnd(w) == SetMax(w.train) + 1

\* C11: no window is truncated: every window handed out has its train end
\* plus the horizon within the series (train_end + H <= N) and a test range
\* of all H positions inside the series; and a plain (expanding or sliding)
\* iteration that has ended stopped at the first candidate that does not
\* fit: the candidate after the last window handed out (the first one, of
\* train end I, when none was) has train_end + H > N.
C11_NoTruncatedWindow ==
    \A m \in Models :
        LET seen == hist[m].seen
            H == Horizon(args)
        IN /\ \A i \in 1..Len(seen) :
                 /\ TrainEnd(seen[i]) + H <= n
                 /\ Cardinality(seen[i].test) = H
                 /\ seen[i].test \subseteq 0..(n - 1)
           /\ (RanOut(m) /\ args.kind \in {"expanding", "sliding"}) =>
                 LET candidate ==
                         IF seen = <<>> THEN args.initial_window
                         ELSE TrainEnd(seen[Len(seen)]) + args.step_length
                 IN candidate + H > n

\* C11's case: a factory-built expanding splitter with I = 1 and S = H = 2 on
\* 6 points has handed out the windows of train ends 1 and 3 and ended: the
\* candidate of train end 5 would need the positions 5 and 6.
C11_Witness ==
    /\ args.via = "get_splitter"
    /\ args.kind = "expanding"
    /\ n = 6
    /\ args.initial_window = 1
    /\ args.step_length = 2
    /\ hist[1].end = "exhausted"
    /\ Len(hist[1].seen) = 2
    /\ TrainEnd(hist[1].seen[2]) = 3

\* C12: in expanding mode the train range of the i-th window handed out
\* (counting from 0) is [0, I + i*S): it starts at position 0 and grows by S
\* positions per window.
C12_ExpandingTrainGrows ==
    \A m \in Models :
        args.kind = "expanding" =>
            \A i \in 1..Len(hist[m].seen) :
                hist[m].seen[i].train =
                    0..(args.initial_window + (i - 1) * args.step_length - 1)

\* C12's case: the factory's expanding splitter with I = 2 and S = 1 has
\* handed out a third window, of train range 0..3.
C12_Witness ==
    /\ args.via = "get_splitter"
    /\ args.kind = "expanding"
    /\ args.initial_window = 2
    /\ args.step_length = 1
    /\ Len(hist[1].seen) >= 3
    /\ hist[1].seen[3].train = 0..3

\* C13: in sliding mode every window's train range has exactly I positions,
\* and that of the i-th window (counting from 0) starts at position i*S.
C13_SlidingTrainFixed ==
    \A m \in Models :
        args.kind = "sliding" =>
            \A i \in 1..Len(hist[m].seen) :
                LET w == hist[m].seen[i]
                    start == (i - 1) * args.step_length
                IN /\ Cardinality(w.train) = args.initial_window
                   /\ w.train = start..(start + args.initial_window - 1)

\* C13's case: a sliding splitter with I = 2 and S = 3 has handed out a
\* second window, of train range 3..4.
C13_Witness ==
    /\ args.kind = "sliding"
    /\ args.initial_window = 2
    /\ args.step_length = 3
    /\ Len(hist[1].seen) >= 2
    /\ hist[1].seen[2].train = 3..4

Overlap(m) ==
    {t \in DOMAIN y : y[t] # NaN /\ t \in Stamps(res[m]) /\ pred[m][t] # NaN}

\* Model m's forecast equals the target series wherever both have a value.
EqualOnOverlap(m) == \A t \in Overlap(m) : pred[m][t] = y[t]

InOrder(a, b) ==
    \/ Less(a.score["MAPE"], b.score["MAPE"])
    \/ /\ a.score["MAPE"] = b.score["MAPE"]
       /\ \/ Less(a.score["MAE"], b.score["MAE"])
          \/ /\ a.score["MAE"] = b.score["MAE"]
             /\ \/ Less(a.score["RMSE"], b.score["RMSE"])
                \/ a.score["RMSE"] = b.score["RMSE"]

\* C18: the error table read through errors_ has exactly one row per
\* evaluated model, and its rows are sorted ascending, lexicographically by
\* the metric columns in their configured order (MAPE, MAE, RMSE).
C18_ErrorTableSorted ==
    (view.read /\ errors = "computed") =>
        /\ Len(view.rows) = Len(res)
        /\ \A m \in 1..Len(res) :
               Cardinality({i \in 1..Len(view.rows) :
                                view.rows[i] = scores[m]}) = 1
        /\ \A i \in 1..(Len(view.rows) - 1) :
               InOrder(view.rows[i], view.rows[i + 1])

\* C18's case: two models with the same MAPE; the second has the smaller
\* MAE and stands first in errors_.
C18_Witness ==
    /\ view.read
    /\ errors = "computed"
    /\ scores[1].score["MAPE"] = scores[2].score["MAPE"]
    /\ scores[1].score["MAPE"] # NaNScore
    /\ Less(scores[2].score["MAE"], scores[1].score["MAE"])
    /\ view.rows[1].model = 2
    /\ view.rows[2].model = 1

\* C19: scoring never fails: whatever the forecast and the actual series
\* have in common (missing values, missing timestamps, a partial overlap,
\* the partial series of a cancelled model), no error leaves the scoring
\* and the error table has a value for every model and metric.
C19_ScoringNeverFails ==
    /\ ~(pc = "raised" /\ exc = "ValueError")
    /\ pc \in {"returned", "raised"} =>
          /\ errors = "computed"
          /\ Len(scores) = Len(res)
          /\ \A m \in 1..Len(res) :
                 DOMAIN scores[m].score = Stamps(MetricNames)

C21_MissingBoundaryRaises ==
    pc = "split" =>
        /\ split.out \in {"ok", "ValueError"}
        /\ split.out = "ValueError" <=>
               (split.train_end = None /\ split.test_len = None)
        /\ split.out = "ValueError" => (split.train = {} /\ split.test = {})

\* C21's case: a start is given but neither an end nor a test length, and
\* the call has raised.
C21_Witness ==
    /\ pc = "split"
    /\ n = 9
    /\ split.train_start = 3
    /\ split.train_end = None
    /\ split.test_len = None
    /\ split.out = "ValueError"

\* The part of y that split_series works on: the indices >= train_start.
KeptBy(call) ==
    {t \in DOMAIN y : call.train_start = None \/ t >= call.train_start}

\* S is made of the first entries of index U, and of k of them if U has as
\* many.
LeadingPart(S, U, k) ==
    /\ S \subseteq U
    /\ \A a \in S : \A b \in U \ S : a < b
    /\ Cardinality(S) = IF Cardinality(U) < k THEN Cardinality(U) ELSE k

\* C22: train and test of a returned split are disjoint parts of y
\* restricted to the indices >= train_start, every train index lies before
\* every test index, and test has at most test_len elements; with train_end
\* None, train is the first test_len elements and test the at most test_len
\* elements that follow them directly.
C22_SplitShape ==
    (pc = "split" /\ split.out = "ok") =>
        /\ split.train \cap split.test = {}
        /\ split.train \cup split.test \subseteq KeptBy(split)
        /\ \A a \in split.train : \A b \in split.test : a < b
        /\ split.test_len # None => Cardinality(split.test) <= split.test_len
        /\ split.train_end = None =>
               /\ LeadingPart(split.train, KeptBy(split), split.test_len)
               /\ LeadingPart(split.test, KeptBy(split) \ split.train,
                              split.test_len)

\* C22's case: y = 1..9, train_start = 3 and test_len = 3 give the train
\* values 4, 5, 6 and the test values 7, 8, 9.
C22_Witness ==
    /\ pc = "split"
    /\ n = 9
    /\ split.train_start = 3
    /\ split.train_end = None
    /\ split.test_len = 3
    /\ {y[t] : t \in split.train} = {4, 5, 6}
    /\ {y[t] : t \in split.test} = {7, 8, 9}

\* C23: result wrappers do not change what evaluate computes: one call of
\* the decorated evaluate invokes the core evaluate exactly once, a table
\* the core has returned is not lost to an error of a wrapper, and the
\* table the outermost wrapper returns is the one the core returned.
C23_WrappersTransparent ==
    deco.list # <<>> =>
        /\ deco.calls <= 1
        /\ ~(pc = "raised" /\ exc = "OSError")
        /\ (pc = "returned" /\ deco.next > Len(deco.list)) =>
               (deco.calls = 1 /\ deco.out = table)

\* The directory create_directory(path) is to make sure of: path itself,
\* or the directory of the file path names.
TargetOf(path) == IF path \in FilePaths THEN Parent(path) ELSE path

\* C24: after create_directory(path) has returned, the target directory
\* exists: path itself when path names a directory, the parent directory
\* when path names a file.
C24_DirectoryExistsAfter ==
    mk # "none" => IsDir(fs, TargetOf(mk))

\* C25: IS_DAY_OFF is 1 for every timestamp whose date is a holiday of the
\* holiday file or falls on a Saturday or a Sunday, and 0 for every other
\* timestamp.
C25_HolidaysAndWeekends ==
    pc = "transformed" =>
        \A x \in DOMAIN df :
            df[x] = ToInt(\/ Stamp(x.day, 0) \in exo
                        \/ DayName(x) \in {"Saturday", "Sunday"})

\* The place of window w in the sequence ws.
PositionIn(ws, w) == CHOOSE k \in 1..Len(ws) : ws[k] = w

\* The windows of sub are windows of ws, in the order they have in ws.
InSequenceOrder(sub, ws) ==
    /\ \A i \in 1..Len(sub) : \E k \in 1..Len(ws) : ws[k] = sub[i]
    /\ \A i, j \in 1..Len(sub) :
           i < j => PositionIn(ws, sub[i]) < PositionIn(ws, sub[j])

\* Where the loop of the running model stands: windows taken up and not yet
\* appended are the one in progress, inside fit or predict, and none between
\* two windows; the windows come in the order of the sequence.
LoopInStep ==
    \A m \in Models :
        LET seen == hist[m].seen
            done == hist[m].done
        IN /\ InSequenceOrder(seen, Underlying(splitter, n))
           /\ Len(done) \in {Len(seen) - 1, Len(seen)}
           /\ done = SubSeq(seen, 1, Len(done))
           /\ (m = mi /\ pc \in {"fit", "predict"}) =>
                  /\ Len(seen) = Len(done) + 1
                  /\ cur = seen[Len(seen)]
           /\ (m = mi /\ pc = "next") => seen = done

\* One step of the loop body: fit is entered from the loop head only, with
\* the next window taken up; predict is entered from fit only; and the step
\* back to the loop head has appended the window's forecast to the end of
\* the series, which changes in no other step of the loop.
LoopStep ==
    /\ (pc' = "fit" /\ pc # "fit") =>
           /\ pc = "next"
           /\ hist'[mi].seen = Append(hist[mi].seen, cur')
    /\ (pc' = "predict" /\ pc # "predict") => (pc = "fit" /\ cur' = cur)
    /\ (pc = "predict" /\ pc' = "next") =>
           /\ results' = results \o Ascending(cur.test)
           /\ hist'[mi].done = Append(hist[mi].done, cur)
    /\ (pc \in {"next", "fit", "predict"} /\ results' # results) =>
           (pc = "predict" /\ pc' = "next")

\* C26: in one model's loop the windows are processed strictly in sequence
\* order; for each window exactly one fit on the train slice happens before
\* exactly one predict for the test range, whose result is appended to the
\* end of the model's forecast series; and the fit of window i+1 never
\* starts before the prediction of window i has been appended.
C26_FitThenPredictInOrder == [](LoopInStep) /\ [][LoopStep]_vars

\* C26's case: the first model has fitted, predicted and appended two
\* windows, one after the other, and stands at the loop head again.
C26_Witness ==
    /\ mi = 1
    /\ pc = "next"
    /\ Len(hist[1].done) = 2
    /\ results = ForecastOver(hist[1].done)
    /\ Len(results) >= 2

\* The first window an iteration of the splitter hands out: the first
\* underlying window for a plain splitter, and for the subsampling splitter
\* the first one whose draw of the seed's stream is retained.
FirstOfSequence ==
    LET U == Underlying(splitter, n)
        K == IF splitter.kind = "testing"
             THEN {i \in 1..Len(U) :
                       i <= Len(stream) /\ Retain(stream[i], splitter.frac)}
             ELSE 1..Len(U)
    IN U[SetMin(K)]

\* The loops of the models follow one another in declaration order: a model
\* that has taken up a window or ended is not behind the running one, and
\* every model before it has ended; and its first window is the first of
\* the sequence.
ModelsInTurn ==
    \A m \in Models :
        /\ (hist[m].seen # <<>> \/ hist[m].end # "none") =>
               /\ m <= mi
               /\ \A k \in 1..(m - 1) : hist[k].end # "none"
        /\ hist[m].seen # <<>> => hist[m].seen[1] = FirstOfSequence

\* evaluate goes from a model to the next one of the declaration only, and a
\* model's loop starts on a fresh iterator.
ModelTurn ==
    /\ mi' \in {mi, mi + 1}
    /\ (pc = "model" /\ pc' = "next") => gen' = FreshGen

\* C27: evaluate runs the models one at a time in declaration order, each
\* from a fresh window iterator: every model's first processed window is the
\* first window of the sequence, and no window of a later model is processed
\* before the loop of the previous model has ended.
C27_ModelsInDeclarationOrder == [](ModelsInTurn) /\ [][ModelTurn]_vars

\* C27's case: the first model's loop has ended after two windows and the
\* second model is inside its first window, the first of the sequence.
C27_Witness ==
    /\ mi = 2
    /\ pc = "fit"
    /\ hist[1].end # "none"
    /\ Len(hist[1].seen) = 2
    /\ hist[2].seen = <<FirstOfSequence>>
    /\ cur = FirstOfSequence

\* The value metric name has on the actual values and model m's forecasts at
\* the timestamps ts, taken in ascending order, the actual value as y_true.
ScoreOn(name, m, ts) ==
    LET at == Ascending(ts)
        err == [i \in 1..Len(at) |-> Abs(y[at[i]] - pred[m][at[i]])]
    IN CASE name = "MAPE" ->
                Mean([i \in 1..Len(at) |-> Rat(err[i], Abs(y[at[i]]))])
         [] name = "MAE" -> Mean([i \in 1..Len(at) |-> Rat(err[i], 1)])
         [] name = "RMSE" ->
                Mean([i \in 1..Len(at) |-> Rat(err[i] * err[i], 1)])

\* C28: for each model, every configured metric is computed on exactly the
\* timestamps that are non-missing in both the actual series and the model's
\* forecast series: missing entries are dropped from each series on its own
\* and only the intersection of the remaining timestamps is passed, the
\* actual values as first argument and the forecasts as second.
C28_MetricsOnCommonStamps ==
    errors = "computed" =>
        \A m \in 1..Len(res) :
            Overlap(m) # {} =>
                \A i \in 1..Len(MetricNames) :
                    scores[m].score[MetricNames[i]] =
                        ScoreOn(MetricNames[i], m, Overlap(m))

\* C28's case: the first model forecasts 2 at both timestamps, the actual
\* series is missing at the first and 1 at the second: the metrics are those
\* of the second timestamp alone, and MAPE is |1 - 2| / |1| = 1.
C28_Witness ==
    /\ errors = "computed"
    /\ Stamps(res[1]) = {0, 1}
    /\ DOMAIN y = {0, 1}
    /\ y[0] = NaN
    /\ y[1] = 1
    /\ pred[1][1] = 2
    /\ Overlap(1) = {1}
    /\ scores[1].score["MAPE"] = Rat(1, 1)
    /\ scores[1].score["MAE"] = Rat(1, 1)

\* C29: at every point of a model's loop, and in whatever way the loop ends
\* (exhaustion, cancellation or a model error), the model's forecast series
\* is the concatenation, in window order, of the complete predictions of a
\* prefix of the windows the model was given: no part of a window's
\* prediction, and no window skipped before the last one it holds.
C29_ForecastOfAPrefix ==
    \A m \in Models :
        LET seen == hist[m].seen
            held == IF m = mi /\ pc \in {"next", "fit", "predict", "ret"}
                    THEN <<results>>
                    ELSE IF m <= Len(res) THEN <<res[m]>> ELSE <<>>
        IN \A i \in 1..Len(held) :
               \E k \in 0..Len(seen) :
                   held[i] = ForecastOver(SubSeq(seen, 1, k))

\* C29's case: a model error ended the first model's loop inside its second
\* window, and evaluate holds the forecast of the first window alone.
C29_Witness ==
    /\ hist[1].end = "ModelError"
    /\ Len(hist[1].seen) = 2
    /\ Len(res) >= 1
    /\ res[1] = ForecastOver(SubSeq(hist[1].seen, 1, 1))
    /\ res[1] # <<>>

\* The windows an iteration over the seed's stream retains with fraction f:
\* the underlying windows whose draw is at most f, in their order.
RetainedWith(f) ==
    LET U == Underlying(splitter, n)
        ks == Ascending({i \in 1..Len(U) :
                             i <= Len(stream) /\ Retain(stream[i], f)})
    IN [j \in 1..Len(ks) |-> U[ks[j]]]

\* C30: the subsampling splitter consumes exactly one random draw per window
\* of the underlying expanding splitter, whatever the fraction is; so over
\* the same series and seed the retained windows are an order-preserving
\* subsequence of the underlying windows, and the windows retained with
\* fraction f1 are among those retained with fraction f2 whenever f1 <= f2.
C30_OneDrawPerWindow ==
    \A m \in Models :
        (splitter.kind = "testing" /\ hist[m].end = "exhausted") =>
            LET U == Underlying(splitter, n)
            IN /\ hist[m].rng1.pos = Len(U)
               /\ Len(stream) = Len(U)
               /\ hist[m].seen = RetainedWith(splitter.frac)
               /\ InSequenceOrder(hist[m].seen, U)
               /\ \A f1, f2 \in 0..Res :
                      f1 <= f2 =>
                          Stamps(RetainedWith(f1)) \subseteq
                              Stamps(RetainedWith(f2))
               /\ \A f \in 0..Res :
                      /\ f <= splitter.frac =>
                             Stamps(RetainedWith(f)) \subseteq
                                 Stamps(hist[m].seen)
                      /\ splitter.frac <= f =>
                             Stamps(hist[m].seen) \subseteq
                                 Stamps(RetainedWith(f))

\* C30's case: an iteration over three underlying windows whose draws differ
\* has ended; it retained some of them and a larger fraction retains more.
C30_Witness ==
    /\ splitter.kind = "testing"
    /\ hist[1].end = "exhausted"
    /\ Len(Underlying(splitter, n)) >= 3
    /\ Len(stream) = Len(Underlying(splitter, n))
    /\ hist[1].seen # <<>>
    /\ Len(hist[1].seen) < Len(Underlying(splitter, n))
    /\ \E f \in 0..Res :
           /\ splitter.frac < f
           /\ Stamps(hist[1].seen) # Stamps(RetainedWith(f))

====
